---- MODULE Spec2Model ----
(***************************************************************************)
(* A model of the Monkey parser of src/src/parser/mod.rs: the token       *)
(* cursor, the statement dispatcher and the Pratt expression engine.      *)
(*                                                                         *)
(* The parser is a record (lexer, errors, cur_token, peek_token) threaded  *)
(* through one operator per parse function; every operator returns the    *)
(* pair (parser after the call, value returned).  The loop of             *)
(* parse_program is the state machine: one action per iteration and one   *)
(* for the return.  Two fields of the parser record are instrumentation:  *)
(* iters counts the loop iterations executed so far (all loops), and      *)
(* diverged is raised when a loop is entered with the iteration budget    *)
(* IterLimit used up.                                                     *)
(***************************************************************************)
EXTENDS Integers, Sequences, FiniteSets, TLC

VARIABLES parser, program, pc

vars == <<parser, program, pc>>

(***************************************************************************)
(* Tokens: <<kind, literal>>.  The literal is the source text of an        *)
(* identifier, integer or string token, as a sequence of characters.      *)
(***************************************************************************)
Token(kind) == <<kind, <<>>>>

Token_IDENT(name) == <<"IDENT", <<name>>>>

Token_INT(text) == <<"INT", text>>

Token_STRING(text) == <<"STRING", text>>

EOF == Token("EOF")

Kind(token) == token[1]

Literal(token) == token[2]

(***************************************************************************)
(* Option<T>                                                               *)
(***************************************************************************)
None == <<"None">>

Some(x) == <<"Some", x>>

IsSome(o) == o[1] = "Some"

Unwrap(o) == o[2]

(***************************************************************************)
(* The token source: next_token() hands out the tokens of the input in    *)
(* order and keeps returning EOF once they are used up.                   *)
(***************************************************************************)
Lexer_new(input) == [input |-> input, position |-> 1]

Lexer_next_token(lexer) ==
    IF lexer.position <= Len(lexer.input)
    THEN [lexer |-> [lexer EXCEPT !.position = @ + 1],
          token |-> lexer.input[lexer.position]]
    ELSE [lexer |-> lexer, token |-> EOF]

(***************************************************************************)
(* PrecedenceType, in declaration order (derive(Ord)).                    *)
(***************************************************************************)
LOWEST == 0
EQUALS == 1
LESSGREATER == 2
SUM == 3
PRODUCT == 4
PREFIX == 5
CALL == 6

\* SUM and PRODUCT exchanged
get_precedence_swapped(token) ==
    CASE Kind(token) \in {"EQ", "NEQ"} -> EQUALS
      [] Kind(token) \in {"LT", "GT"} -> LESSGREATER
      [] Kind(token) \in {"PLUS", "MINUS"} -> PRODUCT
      [] Kind(token) \in {"SLASH", "ASTERISK"} -> SUM
      [] Kind(token) = "LPAREN" -> CALL
      [] OTHER -> LOWEST

get_precedence(token) ==
    CASE Kind(token) \in {"EQ", "NEQ"} -> EQUALS
      [] Kind(token) \in {"LT", "GT"} -> LESSGREATER
      [] Kind(token) \in {"PLUS", "MINUS"} -> SUM
      [] Kind(token) \in {"SLASH", "ASTERISK"} -> PRODUCT
      [] Kind(token) = "LPAREN" -> CALL
      [] OTHER -> LOWEST

(***************************************************************************)
(* Parser::new and Parser::next_token                                      *)
(***************************************************************************)
Parser_new(lexer) ==
    [lexer |-> Lexer_next_token(Lexer_next_token(lexer).lexer).lexer,
     errors |-> <<>>,
     cur_token |-> Lexer_next_token(lexer).token,
     peek_token |-> Lexer_next_token(Lexer_next_token(lexer).lexer).token,
     iters |-> 0,
     diverged |-> FALSE]

\* the swap without the pull of a new token
next_token_swap(p) ==
    [p EXCEPT !.cur_token = p.peek_token, !.peek_token = p.cur_token]

next_token(p) ==
    [p EXCEPT !.cur_token = p.peek_token,
              !.peek_token = Lexer_next_token(p.lexer).token,
              !.lexer = Lexer_next_token(p.lexer).lexer]

PeekIs(p, kind) == Kind(p.peek_token) = kind

CurIs(p, kind) == Kind(p.cur_token) = kind

\* the new message in place of the earlier ones
push_error_reset(p, message) == [p EXCEPT !.errors = <<message>>]

push_error(p, message) == [p EXCEPT !.errors = Append(@, message)]

(***************************************************************************)
(* The diagnostics, as data: the message kind and the token it prints.    *)
(***************************************************************************)
ExpectedError(kind, token) == <<"expected next token to be", kind, token>>

NoPrefixError(token) == <<"no prefix parse function for", token>>

IntegerError(token) == <<"count not parse as integer", token>>

(***************************************************************************)
(* Instrumentation of the loops.                                           *)
(***************************************************************************)
IterLimit(p) == 2 * Len(p.lexer.input) + 2

OutOfBudget(p) == p.iters >= IterLimit(p)

Tick(p) == [p EXCEPT !.iters = @ + 1]

Diverge(p) == [p EXCEPT !.diverged = TRUE]

R(p, val) == [p |-> p, val |-> val]

(***************************************************************************)
(* str::parse::<i64>() on the text of an integer token.  The value is     *)
(* kept as its canonical decimal digits (no leading zero), since it does  *)
(* not fit a machine integer of the model checker.                        *)
(***************************************************************************)
Digits == <<"0", "1", "2", "3", "4", "5", "6", "7", "8", "9">>

IsDigit(c) == \E d \in 1..10 : Digits[d] = c

DigitOf(c) == (CHOOSE d \in 1..10 : Digits[d] = c) - 1

I64MaxDigits == <<9, 2, 2, 3, 3, 7, 2, 0, 3, 6, 8, 5, 4, 7, 7, 5, 8, 0, 7>>

RECURSIVE StripZeros(_)
StripZeros(ds) ==
    IF Len(ds) > 1 /\ ds[1] = 0 THEN StripZeros(Tail(ds)) ELSE ds

\* ds <= es for digit sequences of the same length
RECURSIVE DigitsLeq(_, _)
DigitsLeq(ds, es) ==
    IF ds = <<>> THEN TRUE
    ELSE IF ds[1] # es[1] THEN ds[1] < es[1]
    ELSE DigitsLeq(Tail(ds), Tail(es))

U64MaxDigits == <<1, 8, 4, 4, 6, 7, 4, 4, 0, 7, 3, 7, 0, 9, 5, 5, 1, 6, 1, 5>>

\* the conversion to an unsigned 64-bit integer
parse_u64(text) ==
    IF text = <<>> \/ \E i \in 1..Len(text) : ~IsDigit(text[i])
    THEN [ok |-> FALSE, value |-> <<>>]
    ELSE LET ds == StripZeros([i \in 1..Len(text) |-> DigitOf(text[i])])
         IN  IF Len(ds) < Len(U64MaxDigits)
                \/ (Len(ds) = Len(U64MaxDigits) /\ DigitsLeq(ds, U64MaxDigits))
             THEN [ok |-> TRUE, value |-> ds]
             ELSE [ok |-> FALSE, value |-> <<>>]

parse_i64(text) ==
    IF text = <<>> \/ \E i \in 1..Len(text) : ~IsDigit(text[i])
    THEN [ok |-> FALSE, value |-> <<>>]
    ELSE LET ds == StripZeros([i \in 1..Len(text) |-> DigitOf(text[i])])
         IN  IF Len(ds) < Len(I64MaxDigits)
                \/ (Len(ds) = Len(I64MaxDigits) /\ DigitsLeq(ds, I64MaxDigits))
             THEN [ok |-> TRUE, value |-> ds]
             ELSE [ok |-> FALSE, value |-> <<>>]

(***************************************************************************)
(* AST nodes: <<variant, fields...>> in the order the structs are built.  *)
(***************************************************************************)
Identifier(token) == <<"Identifier", token>>

IntegerLiteral(token, value) == <<"IntegerLiteral", token, value>>

BooleanLiteral(token, value) == <<"BooleanLiteral", token, value>>

StringLiteral(token, value) == <<"StringLiteral", token, value>>

PrefixExpression(token, right) == <<"PrefixExpression", token, right>>

InfixExpression(token, left, right) == <<"InfixExpression", token, left, right>>

IfExpression(token, condition, consequence, alternative) ==
    <<"IfExpression", token, condition, consequence, alternative>>

FunctionLiteral(token, parameters, body) ==
    <<"FunctionLiteral", token, parameters, body>>

CallExpression(token, function, args) == <<"CallExpression", token, function, args>>

ArrayLiteral(token, elements) == <<"ArrayLiteral", token, elements>>

HashLiteral(token, paris) == <<"HashLiteral", token, paris>>

LetStatement(token, identifier, value) == <<"LetStatement", token, identifier, value>>

ReturnStatement(token, value) == <<"ReturnStatement", token, value>>

ExpressionStatement(token, expression) == <<"ExpressionStatement", token, expression>>

BlockStatement(token, statements) == <<"BlockStatement", token, statements>>

(***************************************************************************)
(* HashMap::insert on the pairs of a hash literal: the value of an equal  *)
(* key is replaced, a new key is added.                                   *)
(***************************************************************************)
\* the value of a key that is there is kept
HashMap_insert_keep(paris, key, value) ==
    IF \E i \in 1..Len(paris) : paris[i][1] = key
    THEN paris
    ELSE Append(paris, <<key, value>>)

HashMap_insert(paris, key, value) ==
    IF \E i \in 1..Len(paris) : paris[i][1] = key
    THEN [i \in 1..Len(paris) |->
            IF paris[i][1] = key THEN <<key, value>> ELSE paris[i]]
    ELSE Append(paris, <<key, value>>)

InfixOperators == {"PLUS", "MINUS", "SLASH", "ASTERISK", "EQ", "NEQ", "LT", "GT"}

(***************************************************************************)
(* The parse functions.  A loop is an operator named after its function   *)
(* with the suffix _loop, taking the loop's local variables.  A function  *)
(* that goes on after a call it makes is split there: the part after the  *)
(* call is an operator of its own that takes what the call returned (the  *)
(* parser after the call and the value), named after the function and     *)
(* the point reached.                                                     *)
(***************************************************************************)
RECURSIVE parse_statement(_)
RECURSIVE parse_block_statement_loop(_, _, _)
RECURSIVE parse_expression(_, _)
RECURSIVE parse_expression_loop(_, _, _)
RECURSIVE parse_fn_parameters_loop(_, _)
RECURSIVE parse_hash_literal_loop(_, _, _)
RECURSIVE parse_expression_list_loop(_, _, _)

parse_identifier(p) == R(p, Some(Identifier(p.cur_token)))

parse_integer_literal_result(p, value_result) ==
    IF value_result.ok
    THEN R(p, Some(IntegerLiteral(p.cur_token, value_result.value)))
    ELSE R(push_error(p, IntegerError(p.cur_token)), None)

parse_integer_literal(p, int_string) ==
    parse_integer_literal_result(p, parse_i64(int_string))

parse_bool_literal(p, value) == R(p, Some(BooleanLiteral(p.cur_token, value)))

parse_string_literal(p) ==
    R(p, Some(StringLiteral(p.cur_token, Literal(p.cur_token))))

\* the closing parenthesis found but not consumed
parse_grouped_expression_close_keep(exp) ==
    IF PeekIs(exp.p, "RPAREN")
    THEN R(exp.p, exp.val)
    ELSE R(exp.p, None)

parse_grouped_expression_close(exp) ==
    IF PeekIs(exp.p, "RPAREN")
    THEN R(next_token(exp.p), exp.val)
    ELSE R(exp.p, None)

parse_grouped_expression(p) ==
    parse_grouped_expression_close(parse_expression(next_token(p), LOWEST))

\* statements.push(s) if the statement is Some
push_statement(statements, stmt) ==
    IF IsSome(stmt) THEN Append(statements, Unwrap(stmt)) ELSE statements

parse_block_statement_body(token, statements, stmt) ==
    parse_block_statement_loop(next_token(stmt.p), token,
                               push_statement(statements, stmt.val))

\* the closing brace consumed by the block itself
parse_block_statement_loop_consume(p, token, statements) ==
    IF CurIs(p, "RBRACE")
    THEN R(next_token(p), BlockStatement(token, statements))
    ELSE IF CurIs(p, "EOF")
    THEN R(p, BlockStatement(token, statements))
    ELSE IF OutOfBudget(p)
    THEN R(Diverge(p), BlockStatement(token, statements))
    ELSE parse_block_statement_body(token, statements, parse_statement(Tick(p)))

parse_block_statement_loop(p, token, statements) ==
    IF CurIs(p, "RBRACE") \/ CurIs(p, "EOF")
    THEN R(p, BlockStatement(token, statements))
    ELSE IF OutOfBudget(p)
    THEN R(Diverge(p), BlockStatement(token, statements))
    ELSE parse_block_statement_body(token, statements, parse_statement(Tick(p)))

parse_block_statement(p) ==
    parse_block_statement_loop(next_token(p), p.cur_token, <<>>)

parse_if_expression_alternative(token, condition, consequence, alternative) ==
    R(alternative.p,
      Some(IfExpression(token, Unwrap(condition.val), consequence.val,
                        Some(alternative.val))))

\* an else without a block is passed over
parse_if_expression_else_lenient(token, condition, consequence) ==
    IF PeekIs(consequence.p, "ELSE") /\ PeekIs(next_token(consequence.p), "LBRACE")
    THEN parse_if_expression_alternative(
             token, condition, consequence,
             parse_block_statement(next_token(next_token(consequence.p))))
    ELSE R(consequence.p,
           Some(IfExpression(token, Unwrap(condition.val), consequence.val, None)))

parse_if_expression_else(token, condition, consequence) ==
    IF PeekIs(consequence.p, "ELSE")
    THEN IF PeekIs(next_token(consequence.p), "LBRACE")
         THEN parse_if_expression_alternative(
                  token, condition, consequence,
                  parse_block_statement(next_token(next_token(consequence.p))))
         ELSE R(next_token(consequence.p), None)
    ELSE R(consequence.p,
           Some(IfExpression(token, Unwrap(condition.val), consequence.val, None)))

parse_if_expression_consequence(token, condition) ==
    IF ~IsSome(condition.val) THEN R(condition.p, None)
    ELSE IF ~PeekIs(condition.p, "RPAREN") THEN R(condition.p, None)
    ELSE IF ~PeekIs(next_token(condition.p), "LBRACE")
    THEN R(next_token(condition.p), None)
    ELSE parse_if_expression_else(
             token, condition,
             parse_block_statement(next_token(next_token(condition.p))))

parse_if_expression(p) ==
    IF ~PeekIs(p, "LPAREN") THEN R(p, None)
    ELSE parse_if_expression_consequence(
             p.cur_token, parse_expression(next_token(next_token(p)), LOWEST))

\* vec.push(Identifier { token: self.cur_token.clone() })
push_parameter(p, vec) == Append(vec, Identifier(p.cur_token))

parse_fn_parameters_loop(p, vec) ==
    IF ~PeekIs(p, "COMMA") THEN R(p, vec)
    ELSE IF OutOfBudget(p) THEN R(Diverge(p), vec)
    ELSE parse_fn_parameters_loop(
             next_token(next_token(Tick(p))),
             push_parameter(next_token(next_token(Tick(p))), vec))

parse_fn_parameters_close(loop) ==
    IF PeekIs(loop.p, "RPAREN")
    THEN R(next_token(loop.p), Some(loop.val))
    ELSE R(loop.p, None)

parse_fn_parameters(p) ==
    IF PeekIs(p, "RPAREN") THEN R(next_token(p), Some(<<>>))
    ELSE parse_fn_parameters_close(
             parse_fn_parameters_loop(next_token(p),
                                      push_parameter(next_token(p), <<>>)))

parse_fn_expression_result(token, parameters, body) ==
    R(body.p, Some(FunctionLiteral(token, Unwrap(parameters.val), body.val)))

parse_fn_expression_body(token, parameters) ==
    IF ~IsSome(parameters.val) THEN R(parameters.p, None)
    ELSE IF ~PeekIs(parameters.p, "LBRACE") THEN R(parameters.p, None)
    ELSE parse_fn_expression_result(
             token, parameters, parse_block_statement(next_token(parameters.p)))

parse_fn_expression(p) ==
    IF ~PeekIs(p, "LPAREN") THEN R(p, None)
    ELSE parse_fn_expression_body(p.cur_token, parse_fn_parameters(next_token(p)))

\* the argument put in front of the earlier ones
parse_expression_list_push_front(token, vec, e) ==
    IF ~IsSome(e.val) THEN R(e.p, None)
    ELSE parse_expression_list_loop(e.p, token, <<Unwrap(e.val)>> \o vec)

parse_expression_list_push(token, vec, e) ==
    IF ~IsSome(e.val) THEN R(e.p, None)
    ELSE parse_expression_list_loop(e.p, token, Append(vec, Unwrap(e.val)))

parse_expression_list_loop(p, token, vec) ==
    IF ~PeekIs(p, "COMMA") THEN R(p, Some(vec))
    ELSE IF OutOfBudget(p) THEN R(Diverge(p), None)
    ELSE parse_expression_list_push(
             token, vec, parse_expression(next_token(next_token(Tick(p))), LOWEST))

parse_expression_list_close(token, loop) ==
    IF ~IsSome(loop.val) THEN loop
    ELSE IF loop.p.peek_token = token
    THEN R(next_token(loop.p), loop.val)
    ELSE R(loop.p, None)

parse_expression_list_first(token, first) ==
    IF ~IsSome(first.val) THEN R(first.p, None)
    ELSE parse_expression_list_close(
             token, parse_expression_list_loop(first.p, token, <<Unwrap(first.val)>>))

parse_expression_list(p, token) ==
    IF p.peek_token = token THEN R(next_token(p), Some(<<>>))
    ELSE parse_expression_list_first(token, parse_expression(next_token(p), LOWEST))

parse_array_literal_result(token, elements) ==
    IF ~IsSome(elements.val) THEN R(elements.p, None)
    ELSE R(elements.p, Some(ArrayLiteral(token, Unwrap(elements.val))))

parse_array_literal(p) ==
    parse_array_literal_result(p.cur_token,
                               parse_expression_list(p, Token("RBRACKET")))

parse_hash_literal_insert(token, paris, key, value) ==
    IF ~IsSome(value.val) THEN R(value.p, None)
    ELSE IF PeekIs(value.p, "RBRACE")
    THEN parse_hash_literal_loop(
             value.p, token,
             HashMap_insert(paris, Unwrap(key.val), Unwrap(value.val)))
    ELSE IF PeekIs(value.p, "COMMA")
    THEN parse_hash_literal_loop(
             next_token(value.p), token,
             HashMap_insert(paris, Unwrap(key.val), Unwrap(value.val)))
    ELSE R(value.p, None)

parse_hash_literal_value(token, paris, key) ==
    IF ~IsSome(key.val) THEN R(key.p, None)
    ELSE IF ~PeekIs(key.p, "COLON") THEN R(key.p, None)
    ELSE parse_hash_literal_insert(
             token, paris, key,
             parse_expression(next_token(next_token(key.p)), LOWEST))

\* the while loop of parse_hash_literal; a None result is a return from inside it
parse_hash_literal_loop(p, token, paris) ==
    IF PeekIs(p, "RBRACE") THEN R(p, Some(paris))
    ELSE IF OutOfBudget(p) THEN R(Diverge(p), None)
    ELSE parse_hash_literal_value(
             token, paris, parse_expression(next_token(Tick(p)), LOWEST))

parse_hash_literal_close(token, loop) ==
    IF ~IsSome(loop.val) THEN loop
    ELSE IF PeekIs(loop.p, "RBRACE")
    THEN R(next_token(loop.p), Some(HashLiteral(token, Unwrap(loop.val))))
    ELSE R(loop.p, None)

parse_hash_literal(p) ==
    parse_hash_literal_close(p.cur_token,
                             parse_hash_literal_loop(p, p.cur_token, <<>>))

parse_call_expression_result(token, function, args) ==
    IF ~IsSome(args.val) THEN R(args.p, None)
    ELSE R(args.p, Some(CallExpression(token, function, Unwrap(args.val))))

parse_call_expression(p, function) ==
    parse_call_expression_result(p.cur_token, function,
                                 parse_expression_list(p, Token("RPAREN")))

parse_prefix_expression_result(token, right) ==
    IF ~IsSome(right.val) THEN R(right.p, None)
    ELSE R(right.p, Some(PrefixExpression(token, Unwrap(right.val))))

\* the operand parsed at LOWEST
parse_prefix_expression_lowest(p) ==
    parse_prefix_expression_result(p.cur_token,
                                   parse_expression(next_token(p), LOWEST))

parse_prefix_expression(p) ==
    parse_prefix_expression_result(p.cur_token,
                                   parse_expression(next_token(p), PREFIX))

parse_infix_expression_result(token, left, right) ==
    IF ~IsSome(right.val) THEN R(right.p, None)
    ELSE R(right.p, Some(InfixExpression(token, left, Unwrap(right.val))))

parse_infix_expression(p, left) ==
    parse_infix_expression_result(
        p.cur_token, left,
        parse_expression(next_token(p), get_precedence(p.cur_token)))

\* the match on cur_token that selects the prefix parse function
parse_expression_prefix(p) ==
    CASE CurIs(p, "IDENT") -> parse_identifier(p)
      [] CurIs(p, "INT") -> parse_integer_literal(p, Literal(p.cur_token))
      [] CurIs(p, "TRUE") -> parse_bool_literal(p, TRUE)
      [] CurIs(p, "FALSE") -> parse_bool_literal(p, FALSE)
      [] CurIs(p, "LPAREN") -> parse_grouped_expression(p)
      [] CurIs(p, "IF") -> parse_if_expression(p)
      [] CurIs(p, "FUNCTION") -> parse_fn_expression(p)
      [] CurIs(p, "LBRACKET") -> parse_array_literal(p)
      [] CurIs(p, "LBRACE") -> parse_hash_literal(p)
      [] CurIs(p, "BANG") -> parse_prefix_expression(p)
      [] CurIs(p, "MINUS") -> parse_prefix_expression(p)
      [] CurIs(p, "STRING") -> parse_string_literal(p)
      [] OTHER -> R(push_error(p, NoPrefixError(p.cur_token)), None)

\* left = self.parse_infix_expression(left)?  and  left = self.parse_call_expression(left)?
parse_expression_rebuild(precedence, rebuilt) ==
    IF ~IsSome(rebuilt.val) THEN rebuilt
    ELSE parse_expression_loop(rebuilt.p, precedence, Unwrap(rebuilt.val))

\* the loop test with <= for <
parse_expression_loop_leq(p, precedence, left) ==
    IF ~(~PeekIs(p, "SEMICOLON") /\ precedence <= get_precedence(p.peek_token))
    THEN R(p, Some(left))
    ELSE IF OutOfBudget(p) THEN R(Diverge(p), None)
    ELSE IF Kind(p.peek_token) \in InfixOperators
    THEN parse_expression_rebuild(
             precedence, parse_infix_expression(next_token(Tick(p)), left))
    ELSE IF PeekIs(p, "LPAREN")
    THEN parse_expression_rebuild(
             precedence, parse_call_expression(next_token(Tick(p)), left))
    ELSE R(p, Some(left))

parse_expression_loop(p, precedence, left) ==
    IF ~(~PeekIs(p, "SEMICOLON") /\ precedence < get_precedence(p.peek_token))
    THEN R(p, Some(left))
    ELSE IF OutOfBudget(p) THEN R(Diverge(p), None)
    ELSE IF Kind(p.peek_token) \in InfixOperators
    THEN parse_expression_rebuild(
             precedence, parse_infix_expression(next_token(Tick(p)), left))
    ELSE IF PeekIs(p, "LPAREN")
    THEN parse_expression_rebuild(
             precedence, parse_call_expression(next_token(Tick(p)), left))
    ELSE R(p, Some(left))

parse_expression_left(precedence, left) ==
    IF ~IsSome(left.val) THEN left
    ELSE parse_expression_loop(left.p, precedence, Unwrap(left.val))

parse_expression(p, precedence) ==
    parse_expression_left(precedence, parse_expression_prefix(p))

\* if matches!(self.peek_token, Token::SEMICOLON) { self.next_token(); }
skip_semicolon(p) == IF PeekIs(p, "SEMICOLON") THEN next_token(p) ELSE p

parse_let_statement_value(token, name, value) ==
    R(skip_semicolon(value.p), Some(LetStatement(token, name, value.val)))

\* the missing '=' reported, the statement built all the same
parse_let_statement_assign_keep(token, p) ==
    IF ~PeekIs(p, "ASSIGN")
    THEN parse_let_statement_value(
             token, Identifier(p.cur_token),
             parse_expression(
                 next_token(push_error(p, ExpectedError("Token::ASSIGN", p.peek_token))),
                 LOWEST))
    ELSE parse_let_statement_value(
             token, Identifier(p.cur_token),
             parse_expression(next_token(next_token(p)), LOWEST))

parse_let_statement_assign(token, p) ==
    IF ~PeekIs(p, "ASSIGN")
    THEN R(push_error(p, ExpectedError("Token::ASSIGN", p.peek_token)), None)
    ELSE parse_let_statement_value(
             token, Identifier(p.cur_token),
             parse_expression(next_token(next_token(p)), LOWEST))

parse_let_statement(p) ==
    IF ~PeekIs(p, "IDENT")
    THEN R(push_error(p, ExpectedError("Token::IDENT", p.peek_token)), None)
    ELSE parse_let_statement_assign(p.cur_token, next_token(p))

\* a failed value makes the statement fail
parse_return_statement_value_strict(token, value) ==
    IF ~IsSome(value.val) THEN R(value.p, None)
    ELSE R(skip_semicolon(value.p), Some(ReturnStatement(token, value.val)))

parse_return_statement_value(token, value) ==
    R(skip_semicolon(value.p), Some(ReturnStatement(token, value.val)))

parse_return_statement(p) ==
    parse_return_statement_value(p.cur_token,
                                 parse_expression(next_token(p), LOWEST))

parse_expression_statement_value(token, expression) ==
    R(skip_semicolon(expression.p),
      Some(ExpressionStatement(token, expression.val)))

parse_expression_statement(p) ==
    parse_expression_statement_value(p.cur_token, parse_expression(p, LOWEST))

parse_statement(p) ==
    CASE CurIs(p, "LET") -> parse_let_statement(p)
      [] CurIs(p, "RETURN") -> parse_return_statement(p)
      [] OTHER -> parse_expression_statement(p)

(***************************************************************************)
(* parse_program: the body of the while loop, once, and the return.       *)
(***************************************************************************)
parse_program_push(statements, statement) ==
    [p |-> next_token(statement.p),
     statements |-> push_statement(statements, statement.val)]

\* the loop body without its next_token()
parse_program_push_no_advance(statements, statement) ==
    [p |-> statement.p,
     statements |-> push_statement(statements, statement.val)]

parse_program_iteration_no_advance(p, statements) ==
    parse_program_push_no_advance(statements, parse_statement(Tick(p)))

parse_program_iteration(p, statements) ==
    parse_program_push(statements, parse_statement(Tick(p)))

ParseProgramIteration ==
    /\ pc = "loop"
    /\ ~CurIs(parser, "EOF")
    /\ IF OutOfBudget(parser) \/ parser.diverged
       THEN /\ parser' = Diverge(parser)
            /\ pc' = "diverged"
            /\ UNCHANGED program
       ELSE /\ parser' = parse_program_iteration(parser, program.statements).p
            /\ program' =
                   [statements |->
                       parse_program_iteration(parser, program.statements).statements]
            /\ pc' = "loop"

ParseProgramReturn ==
    /\ pc = "loop"
    /\ CurIs(parser, "EOF")
    /\ pc' = "done"
    /\ UNCHANGED <<parser, program>>

\* Parser::new(Lexer::new(input)), for an input of the given set
ParserNew(inputs) ==
    /\ pc = "new"
    /\ \E input \in inputs : parser' = Parser_new(Lexer_new(input))
    /\ program' = [statements |-> <<>>]
    /\ pc' = "loop"

NextOn(inputs) ==
    \/ ParserNew(inputs)
    \/ ParseProgramIteration
    \/ ParseProgramReturn

\* before the parser is constructed
Init ==
    /\ parser = Parser_new(Lexer_new(<<>>))
    /\ program = [statements |-> <<>>]
    /\ pc = "new"

(***************************************************************************)
(* Inputs.  The token kinds of crate::token::Token the parser looks at,   *)
(* with two identifiers and two integer texts.                            *)
(***************************************************************************)
MaxLen == 3

T_a == Token_IDENT("a")
T_b == Token_IDENT("b")
T_c == Token_IDENT("c")
T_d == Token_IDENT("d")
T_e == Token_IDENT("e")
T_5 == Token_INT(<<"5">>)
T_LET == Token("LET")
T_RETURN == Token("RETURN")
T_IF == Token("IF")
T_ELSE == Token("ELSE")
T_FUNCTION == Token("FUNCTION")
T_ASSIGN == Token("ASSIGN")
T_SEMICOLON == Token("SEMICOLON")
T_COMMA == Token("COMMA")
T_COLON == Token("COLON")
T_LPAREN == Token("LPAREN")
T_RPAREN == Token("RPAREN")
T_LBRACE == Token("LBRACE")
T_RBRACE == Token("RBRACE")
T_LBRACKET == Token("LBRACKET")
T_RBRACKET == Token("RBRACKET")
T_PLUS == Token("PLUS")
T_MINUS == Token("MINUS")
T_ASTERISK == Token("ASTERISK")
T_SLASH == Token("SLASH")
T_EQ == Token("EQ")
T_NEQ == Token("NEQ")
T_LT == Token("LT")
T_GT == Token("GT")
T_BANG == Token("BANG")
T_TRUE == Token("TRUE")

Alphabet ==
    {T_a, T_5, T_LET, T_RETURN, T_IF, T_ELSE, T_FUNCTION, T_ASSIGN, T_SEMICOLON,
     T_COMMA, T_COLON, T_LPAREN, T_RPAREN, T_LBRACE, T_RBRACE, T_LBRACKET,
     T_RBRACKET, T_PLUS, T_MINUS, T_BANG}

SeqsUpTo(S, n) == UNION {[1..k -> S] : k \in 0..n}

\* well-formed programs, one construct of the grammar each
Templates ==
    {<<T_LET, T_a, T_ASSIGN, T_5, T_SEMICOLON>>,
     <<T_RETURN, T_a, T_PLUS, T_5, T_SEMICOLON>>,
     <<T_IF, T_LPAREN, T_a, T_RPAREN, T_LBRACE, T_a, T_RBRACE,
       T_ELSE, T_LBRACE, T_5, T_RBRACE>>,
     <<T_FUNCTION, T_LPAREN, T_a, T_COMMA, T_b, T_RPAREN,
       T_LBRACE, T_RETURN, T_a, T_SEMICOLON, T_RBRACE>>,
     <<T_a, T_LPAREN, T_a, T_COMMA, T_5, T_RPAREN, T_SEMICOLON, T_b>>,
     <<T_LPAREN, T_a, T_PLUS, T_5, T_RPAREN, T_ASTERISK, T_a>>,
     <<T_LBRACKET, T_a, T_COMMA, T_5, T_RBRACKET>>,
     <<T_LBRACE, T_a, T_COLON, T_5, T_COMMA, T_b, T_COLON, T_a, T_RBRACE>>,
     <<T_IF, T_LPAREN, T_a, T_RPAREN, T_LBRACE,
       T_LET, T_a, T_ASSIGN, T_5, T_SEMICOLON, T_RETURN, T_a, T_RBRACE>>,
     <<T_LET, T_a, T_ASSIGN, T_FUNCTION, T_LPAREN, T_RPAREN,
       T_LBRACE, T_RBRACE, T_SEMICOLON, T_a, T_LPAREN, T_RPAREN>>}

Substitute(t, i, x) == [j \in 1..Len(t) |-> IF j = i THEN x ELSE t[j]]

Delete(t, i) == [j \in 1..(Len(t) - 1) |-> IF j < i THEN t[j] ELSE t[j + 1]]

\* a template with one token replaced or removed, or cut short
Mutations(t) ==
    {Substitute(t, i, x) : i \in 1..Len(t), x \in Alphabet}
    \cup {Delete(t, i) : i \in 1..Len(t)}
    \cup {SubSeq(t, 1, k) : k \in 0..Len(t)}

MaxStatements == 2

\* one statement each, ended by ';': well formed, or an if or a function
\* literal whose block lacks its braces
StatementForms ==
    {<<T_LET, T_a, T_ASSIGN, T_5, T_SEMICOLON>>,
     <<T_RETURN, T_a, T_SEMICOLON>>,
     <<T_a, T_PLUS, T_5, T_SEMICOLON>>,
     <<T_MINUS, T_5, T_ASTERISK, T_5, T_SEMICOLON>>,
     <<T_a, T_LPAREN, T_b, T_COMMA, T_5, T_RPAREN, T_SEMICOLON>>,
     <<T_IF, T_LPAREN, T_a, T_RPAREN, T_LBRACE, T_b, T_SEMICOLON, T_RBRACE,
       T_SEMICOLON>>,
     <<T_FUNCTION, T_LPAREN, T_a, T_RPAREN, T_LBRACE, T_RETURN, T_a,
       T_SEMICOLON, T_RBRACE, T_SEMICOLON>>,
     <<T_IF, T_LPAREN, T_a, T_RPAREN, T_b, T_SEMICOLON>>,
     <<T_FUNCTION, T_LPAREN, T_a, T_RPAREN, T_b, T_SEMICOLON>>}

RECURSIVE Concat(_)
Concat(pieces) ==
    IF pieces = <<>> THEN <<>> ELSE Head(pieces) \o Concat(Tail(pieces))

\* up to MaxStatements statements, the ';' of the last one optional
StatementInputs ==
    {Concat(pieces) : pieces \in SeqsUpTo(StatementForms, MaxStatements)}
    \cup {SubSeq(Concat(pieces), 1, Len(Concat(pieces)) - 1) :
              pieces \in SeqsUpTo(StatementForms, MaxStatements) \ {<<>>}}

ProgramInputs ==
    SeqsUpTo(Alphabet, MaxLen)
    \cup UNION {Mutations(t) : t \in Templates}
    \cup StatementInputs

Next == NextOn(ProgramInputs)

Spec == Init /\ [][Next]_vars

(***************************************************************************)
(* C1: parse_program terminates on every input.  Every iteration of every *)
(* loop is counted in iters; no loop is ever entered with the budget      *)
(* IterLimit (linear in the number of tokens) used up, so all loops exit; *)
(* while the loop of parse_program runs either its body or its return can *)
(* be taken; and at the return the current token is end-of-input.         *)
(***************************************************************************)
C1_Terminates ==
    /\ pc \in {"new", "loop", "done"}
    /\ ~parser.diverged
    /\ parser.iters < IterLimit(parser)
    /\ pc = "done" => parser.cur_token = EOF

C1_Witness ==
    /\ pc = "done"
    /\ parser.errors # <<>>
    /\ parser.iters > Len(parser.lexer.input)
    /\ Len(program.statements) > 1

(***************************************************************************)
(* Expression inputs: operator chains x1 op1 x2 ... xn over the binary    *)
(* operators, plain, with one parenthesised sub-chain, with prefixed or   *)
(* called operands, and call expressions with argument lists.             *)
(***************************************************************************)
MaxOperands == 4

MaxPrefixOperands == 2

MaxArgs == 2

Operands == <<T_a, T_b, T_5, T_c, T_d, T_e>>

OperatorTokens == {T_PLUS, T_MINUS, T_ASTERISK, T_SLASH, T_EQ, T_NEQ, T_LT, T_GT}

PlainForms(i) == {<<Operands[i]>>}

PrefixForms(i) ==
    {<<Operands[i]>>,
     <<T_MINUS, Operands[i]>>,
     <<T_BANG, Operands[i]>>,
     <<T_BANG, T_MINUS, Operands[i]>>,
     <<T_MINUS, Operands[i], T_LPAREN, T_RPAREN>>,
     <<T_BANG, T_LPAREN, Operands[i], T_RPAREN>>}

\* the chains of n operands, the i-th operand written in one of Forms(i)
Forms(i, prefixed) == IF prefixed THEN PrefixForms(i) ELSE PlainForms(i)

RECURSIVE ChainsOf(_, _)
ChainsOf(n, prefixed) ==
    IF n = 1 THEN Forms(1, prefixed)
    ELSE {c \o <<op>> \o f :
            c \in ChainsOf(n - 1, prefixed), op \in OperatorTokens,
            f \in Forms(n, prefixed)}

PlainChains == UNION {ChainsOf(n, FALSE) : n \in 1..MaxOperands}

PrefixChains == UNION {ChainsOf(n, TRUE) : n \in 1..MaxPrefixOperands}

\* operands i..j of a plain chain in parentheses
Grouped(chain, i, j) ==
    SubSeq(chain, 1, 2 * i - 2) \o <<T_LPAREN>> \o SubSeq(chain, 2 * i - 1, 2 * j - 1)
        \o <<T_RPAREN>> \o SubSeq(chain, 2 * j, Len(chain))

NOperands(chain) == (Len(chain) + 1) \div 2

GroupInputs ==
    UNION {UNION {{Grouped(c, i, j) : i \in 1..j} : j \in 1..NOperands(c)} :
             c \in PlainChains}

Arguments ==
    {<<T_a>>,
     <<T_5>>,
     <<T_a, T_PLUS, T_b>>,
     <<T_b, T_ASTERISK, T_5, T_PLUS, T_c>>,
     <<T_MINUS, T_a>>,
     <<T_c, T_LPAREN, T_d, T_COMMA, T_e, T_RPAREN>>,
     <<T_LPAREN, T_a, T_PLUS, T_b, T_RPAREN, T_ASTERISK, T_c>>}

RECURSIVE JoinArguments(_)
JoinArguments(args) ==
    IF args = <<>> THEN <<>>
    ELSE IF Len(args) = 1 THEN args[1]
    ELSE args[1] \o <<T_COMMA>> \o JoinArguments(Tail(args))

CallOf(args) == <<T_a, T_LPAREN>> \o JoinArguments(args) \o <<T_RPAREN>>

ArgumentLists == SeqsUpTo(Arguments, MaxArgs)

CallInputs ==
    {CallOf(args) : args \in ArgumentLists}
    \cup {<<T_b, T_PLUS>> \o CallOf(args) : args \in ArgumentLists}
    \cup {CallOf(args) \o <<T_ASTERISK, T_c>> : args \in ArgumentLists}

ExprInputs == PlainChains \cup GroupInputs \cup PrefixChains \cup CallInputs

ExprNext == NextOn(ExprInputs)

ExprSpec == Init /\ [][ExprNext]_vars

(***************************************************************************)
(* The reference grammar of expressions, by splitting instead of by       *)
(* climbing: an expression with binary operators outside all parentheses  *)
(* is split at the last of its loosest ones; otherwise a leading prefix   *)
(* operator applies to all the rest; otherwise a closing parenthesis ends *)
(* a group (opened by the first token) or a call (opened later);          *)
(* otherwise it is one operand.  The binding powers are those section 4.3 *)
(* of the specification lists.                                            *)
(***************************************************************************)
RefBindingPower(token) ==
    CASE Kind(token) \in {"EQ", "NEQ"} -> 1
      [] Kind(token) \in {"LT", "GT"} -> 2
      [] Kind(token) \in {"PLUS", "MINUS"} -> 3
      [] Kind(token) \in {"SLASH", "ASTERISK"} -> 4

Input == parser.lexer.input

DepthAt(ts, k) ==
    Cardinality({i \in 1..(k - 1) : ts[i] = T_LPAREN})
        - Cardinality({i \in 1..(k - 1) : ts[i] = T_RPAREN})

EndsOperand(token) == Kind(token) \in {"IDENT", "INT", "RPAREN"}

IsBinaryAt(ts, k) ==
    /\ ts[k] \in OperatorTokens
    /\ k > 1
    /\ EndsOperand(ts[k - 1])
    /\ DepthAt(ts, k) = 0

TopOperators(ts) == {k \in 1..Len(ts) : IsBinaryAt(ts, k)}

SplitPoint(ts) ==
    CHOOSE k \in TopOperators(ts) :
        \A j \in TopOperators(ts) :
            \/ RefBindingPower(ts[k]) < RefBindingPower(ts[j])
            \/ (RefBindingPower(ts[k]) = RefBindingPower(ts[j]) /\ j <= k)

\* the parenthesis that the last token closes
LastOpen(ts) ==
    CHOOSE m \in 1..Len(ts) :
        /\ ts[m] = T_LPAREN
        /\ DepthAt(ts, m) = 0
        /\ \A j \in (m + 1)..Len(ts) : ~(ts[j] = T_LPAREN /\ DepthAt(ts, j) = 0)

TopCommas(ts) == {k \in 1..Len(ts) : ts[k] = T_COMMA /\ DepthAt(ts, k) = 0}

FirstComma(ts) == CHOOSE k \in TopCommas(ts) : \A j \in TopCommas(ts) : k <= j

\* the comma-separated pieces of an argument list, in source order
RECURSIVE ArgumentsOf(_)
ArgumentsOf(ts) ==
    IF ts = <<>> THEN <<>>
    ELSE IF TopCommas(ts) = {} THEN <<ts>>
    ELSE <<SubSeq(ts, 1, FirstComma(ts) - 1)>>
             \o ArgumentsOf(SubSeq(ts, FirstComma(ts) + 1, Len(ts)))

RefOperand(token) ==
    IF Kind(token) = "INT"
    THEN IntegerLiteral(token, parse_i64(Literal(token)).value)
    ELSE Identifier(token)

RECURSIVE RefParse(_)
RefInfix(ts, k) ==
    InfixExpression(ts[k], RefParse(SubSeq(ts, 1, k - 1)),
                    RefParse(SubSeq(ts, k + 1, Len(ts))))

RefCall(ts, m) ==
    CallExpression(ts[m], RefParse(SubSeq(ts, 1, m - 1)),
                   [i \in 1..Len(ArgumentsOf(SubSeq(ts, m + 1, Len(ts) - 1))) |->
                       RefParse(ArgumentsOf(SubSeq(ts, m + 1, Len(ts) - 1))[i])])

RefParse(ts) ==
    IF TopOperators(ts) # {} THEN RefInfix(ts, SplitPoint(ts))
    ELSE IF Kind(ts[1]) \in {"BANG", "MINUS"}
    THEN PrefixExpression(ts[1], RefParse(Tail(ts)))
    ELSE IF Kind(ts[Len(ts)]) = "RPAREN"
    THEN IF LastOpen(ts) = 1
         THEN RefParse(SubSeq(ts, 2, Len(ts) - 1))
         ELSE RefCall(ts, LastOpen(ts))
    ELSE RefOperand(ts[1])

\* the program of one expression statement holding the given expression
OneExpression(ts, expression) ==
    <<ExpressionStatement(ts[1], Some(expression))>>

Parsed(expression) ==
    /\ program.statements = OneExpression(Input, expression)
    /\ parser.errors = <<>>

(***************************************************************************)
(* C2: a chain of simple operands whose operators all have the same       *)
(* binding power parses to the left-nested tree                           *)
(* (((x1 op1 x2) op2 x3) ... xn).                                         *)
(***************************************************************************)
SamePower(chain) ==
    \A i, j \in 1..Len(chain) :
        (i % 2 = 0 /\ j % 2 = 0)
            => RefBindingPower(chain[i]) = RefBindingPower(chain[j])

RECURSIVE LeftNested(_)
LeftNested(chain) ==
    IF Len(chain) = 1 THEN RefOperand(chain[1])
    ELSE InfixExpression(chain[Len(chain) - 1],
                         LeftNested(SubSeq(chain, 1, Len(chain) - 2)),
                         RefOperand(chain[Len(chain)]))

C2_LeftAssociative ==
    (pc = "done" /\ Input \in PlainChains /\ SamePower(Input))
        => Parsed(LeftNested(Input))

C2_Witness ==
    /\ pc = "done"
    /\ Input = <<T_a, T_ASTERISK, T_b, T_SLASH, T_5, T_ASTERISK, T_c>>
    /\ Parsed(InfixExpression(T_ASTERISK,
                  InfixExpression(T_SLASH,
                      InfixExpression(T_ASTERISK, Identifier(T_a), Identifier(T_b)),
                      IntegerLiteral(T_5, <<5>>)),
                  Identifier(T_c)))

(***************************************************************************)
(* C3: binary operators nest by binding power: a op1 b op2 c is           *)
(* (a op1 (b op2 c)) when op2 binds strictly tighter than op1 and         *)
(* ((a op1 b) op2 c) otherwise, and every chain of simple operands parses *)
(* to the tree of the reference grammar.                                  *)
(***************************************************************************)
ThreeOperands(chain) ==
    IF RefBindingPower(chain[4]) > RefBindingPower(chain[2])
    THEN InfixExpression(chain[2], RefOperand(chain[1]),
             InfixExpression(chain[4], RefOperand(chain[3]), RefOperand(chain[5])))
    ELSE InfixExpression(chain[4],
             InfixExpression(chain[2], RefOperand(chain[1]), RefOperand(chain[3])),
             RefOperand(chain[5]))

C3_Precedence ==
    (pc = "done" /\ Input \in PlainChains)
        => /\ Parsed(RefParse(Input))
           /\ Len(Input) = 5 => Parsed(ThreeOperands(Input))

C3_Witness ==
    /\ pc = "done"
    /\ Input = <<T_a, T_EQ, T_b, T_PLUS, T_5, T_ASTERISK, T_c>>
    /\ Parsed(InfixExpression(T_EQ, Identifier(T_a),
                  InfixExpression(T_PLUS, Identifier(T_b),
                      InfixExpression(T_ASTERISK, IntegerLiteral(T_5, <<5>>),
                                      Identifier(T_c)))))

\* the parser with ts[i] as its current token
RECURSIVE Advanced(_, _)
Advanced(p, n) == IF n = 0 THEN p ELSE Advanced(next_token(p), n - 1)

ParserAt(ts, i) == Advanced(Parser_new(Lexer_new(ts)), i - 1)

\* the parse at LOWEST of ts on its own
Standalone(ts) == parse_expression(Parser_new(Lexer_new(ts)), LOWEST)

\* the expression of the only statement of the program
TheExpression == Unwrap(program.statements[1][3])

(***************************************************************************)
(* C4: a parenthesised sub-expression ( e ) is parsed at LOWEST on its    *)
(* own whatever operators surround it: parse_grouped_expression returns   *)
(* exactly the tree of e (no node for the group) with the closing         *)
(* parenthesis as current token, and the whole expression is the tree of  *)
(* the reference grammar with the group as one operand.                   *)
(***************************************************************************)
GroupOpen(ts) == CHOOSE i \in 1..Len(ts) : ts[i] = T_LPAREN

GroupClose(ts) == CHOOSE i \in 1..Len(ts) : ts[i] = T_RPAREN

GroupBody(ts) == SubSeq(ts, GroupOpen(ts) + 1, GroupClose(ts) - 1)

GroupParse(ts) == parse_grouped_expression(ParserAt(ts, GroupOpen(ts)))

CursorAt(p, ts, i) ==
    /\ p.cur_token = ts[i]
    /\ p.peek_token = (IF i < Len(ts) THEN ts[i + 1] ELSE EOF)
    /\ p.lexer.position = (IF i < Len(ts) THEN i + 2 ELSE Len(ts) + 1)

C4_Grouping ==
    (pc = "done" /\ Input \in GroupInputs)
        => /\ Parsed(RefParse(Input))
           /\ GroupParse(Input).val = Some(RefParse(GroupBody(Input)))
           /\ GroupParse(Input).val = Standalone(GroupBody(Input)).val
           /\ CursorAt(GroupParse(Input).p, Input, GroupClose(Input))

C4_Witness ==
    /\ pc = "done"
    /\ Input = <<T_a, T_ASTERISK, T_LPAREN, T_b, T_PLUS, T_5, T_RPAREN, T_ASTERISK, T_c>>
    /\ Parsed(InfixExpression(T_ASTERISK,
                  InfixExpression(T_ASTERISK, Identifier(T_a),
                      InfixExpression(T_PLUS, Identifier(T_b),
                                      IntegerLiteral(T_5, <<5>>))),
                  Identifier(T_c)))
    /\ GroupParse(Input).p.cur_token = T_RPAREN

(***************************************************************************)
(* C5: a prefix operator takes its operand at PREFIX binding power: a     *)
(* binary operator after the operand is not absorbed (the root of         *)
(* -a * b is the product), prefix operators nest right to left, and only  *)
(* a call extends the operand; the tree is that of the reference grammar. *)
(***************************************************************************)
C5_PrefixOperand ==
    (pc = "done" /\ Input \in PrefixChains)
        => /\ Parsed(RefParse(Input))
           /\ TopOperators(Input) # {} => TheExpression[1] = "InfixExpression"
           /\ (TopOperators(Input) = {} /\ Kind(Input[1]) \in {"BANG", "MINUS"})
                  => /\ TheExpression[1] = "PrefixExpression"
                     /\ TheExpression[2] = Input[1]
                     /\ Some(TheExpression[3]) = Standalone(Tail(Input)).val

C5_Witness ==
    /\ pc = "done"
    /\ Input = <<T_BANG, T_MINUS, T_a, T_ASTERISK, T_MINUS, T_b, T_LPAREN, T_RPAREN>>
    /\ Parsed(InfixExpression(T_ASTERISK,
                  PrefixExpression(T_BANG,
                      PrefixExpression(T_MINUS, Identifier(T_a))),
                  PrefixExpression(T_MINUS,
                      CallExpression(T_LPAREN, Identifier(T_b), <<>>))))

(***************************************************************************)
(* C6: in a call the expression built so far is the callee and the        *)
(* arguments are the comma-separated expressions up to the closing        *)
(* parenthesis, in source order: as many as the source has, the k-th one  *)
(* being the parse at LOWEST of the k-th piece of the source on its own.  *)
(***************************************************************************)
CallOpen(ts) == CHOOSE i \in 1..Len(ts) : ts[i] = T_LPAREN /\ DepthAt(ts, i) = 0

CallClose(ts) ==
    CHOOSE k \in 1..Len(ts) :
        /\ k > CallOpen(ts)
        /\ DepthAt(ts, k + 1) = 0
        /\ \A j \in (CallOpen(ts) + 1)..(k - 1) : DepthAt(ts, j + 1) > 0

SourceArguments(ts) == ArgumentsOf(SubSeq(ts, CallOpen(ts) + 1, CallClose(ts) - 1))

\* the call node of b + a(..), of a(..) * c and of a(..)
CallNode(expression) ==
    IF expression[1] = "CallExpression" THEN expression
    ELSE IF expression[2] = T_PLUS THEN expression[4]
    ELSE expression[3]

IsCallOf(node, ts) ==
    /\ node[1] = "CallExpression"
    /\ node[2] = ts[CallOpen(ts)]
    /\ node[3] = Identifier(ts[CallOpen(ts) - 1])
    /\ Len(node[4]) = Len(SourceArguments(ts))
    /\ \A k \in 1..Len(node[4]) :
           Some(node[4][k]) = Standalone(SourceArguments(ts)[k]).val

C6_CallArguments ==
    (pc = "done" /\ Input \in CallInputs)
        => /\ parser.errors = <<>>
           /\ Len(program.statements) = 1
           /\ IsCallOf(CallNode(TheExpression), Input)

C6_Witness ==
    /\ pc = "done"
    /\ Input = <<T_b, T_PLUS>>
                 \o CallOf(<<<<T_b, T_ASTERISK, T_5, T_PLUS, T_c>>,
                             <<T_c, T_LPAREN, T_d, T_COMMA, T_e, T_RPAREN>>>>)
    /\ TheExpression[1] = "InfixExpression"
    /\ CallNode(TheExpression)[4] =
           <<InfixExpression(T_PLUS,
                 InfixExpression(T_ASTERISK, Identifier(T_b),
                                 IntegerLiteral(T_5, <<5>>)),
                 Identifier(T_c)),
             CallExpression(T_LPAREN, Identifier(T_c),
                            <<Identifier(T_d), Identifier(T_e)>>)>>

(***************************************************************************)
(* The statements of a Program, those of the blocks of its if expressions *)
(* and function literals included, in source order.                       *)
(***************************************************************************)
RECURSIVE StatementsOfExpression(_), StatementsOfExpressions(_)
RECURSIVE StatementsOfPairs(_), StatementsOfList(_)

StatementsOfOption(slot) ==
    IF IsSome(slot) THEN StatementsOfExpression(Unwrap(slot)) ELSE <<>>

StatementsOfList(statements) ==
    IF statements = <<>> THEN <<>>
    ELSE <<Head(statements)>>
         \o StatementsOfOption(Head(statements)[Len(Head(statements))])
         \o StatementsOfList(Tail(statements))

StatementsOfExpressions(expressions) ==
    IF expressions = <<>> THEN <<>>
    ELSE StatementsOfExpression(Head(expressions))
         \o StatementsOfExpressions(Tail(expressions))

StatementsOfPairs(paris) ==
    IF paris = <<>> THEN <<>>
    ELSE StatementsOfExpression(Head(paris)[1])
         \o StatementsOfExpression(Head(paris)[2])
         \o StatementsOfPairs(Tail(paris))

StatementsOfExpression(e) ==
    CASE e[1] = "PrefixExpression" -> StatementsOfExpression(e[3])
      [] e[1] = "InfixExpression" ->
             StatementsOfExpression(e[3]) \o StatementsOfExpression(e[4])
      [] e[1] = "IfExpression" ->
             StatementsOfExpression(e[3])
             \o StatementsOfList(e[4][3])
             \o (IF IsSome(e[5]) THEN StatementsOfList(Unwrap(e[5])[3]) ELSE <<>>)
      [] e[1] = "FunctionLiteral" -> StatementsOfList(e[4][3])
      [] e[1] = "CallExpression" ->
             StatementsOfExpression(e[3]) \o StatementsOfExpressions(e[4])
      [] e[1] = "ArrayLiteral" -> StatementsOfExpressions(e[3])
      [] e[1] = "HashLiteral" -> StatementsOfPairs(e[3])
      [] OTHER -> <<>>

AllStatements == StatementsOfList(program.statements)

EmptySlot(statement) == statement[Len(statement)] = None

(***************************************************************************)
(* C7: when parse_program records no diagnostic, the Program has as many  *)
(* statements as the source has top-level statements, a ';' outside any   *)
(* bracket ending a statement and the last statement needing none.        *)
(***************************************************************************)
NestingAt(ts, k) ==
    Cardinality({i \in 1..(k - 1) : ts[i] \in {T_LPAREN, T_LBRACE, T_LBRACKET}})
        - Cardinality({i \in 1..(k - 1) : ts[i] \in {T_RPAREN, T_RBRACE, T_RBRACKET}})

SourceStatements(ts) ==
    Cardinality({i \in 1..Len(ts) : ts[i] = T_SEMICOLON /\ NestingAt(ts, i) = 0})
        + (IF ts # <<>> /\ ts[Len(ts)] # T_SEMICOLON THEN 1 ELSE 0)

C7_StatementCount ==
    (pc = "done" /\ Input \in StatementInputs /\ parser.errors = <<>>)
        => Len(program.statements) = SourceStatements(Input)

(***************************************************************************)
(* C8: a let statement with a malformed head is reported and dropped:     *)
(* parse_let_statement, and so parse_statement, returns no statement and  *)
(* appends one diagnostic with the expected kind (identifier, or '=' once *)
(* the identifier is there) and the peek token found; the Program has no  *)
(* more let statements, at any depth, than the source has well-formed     *)
(* heads, and a source that begins with a malformed let has that          *)
(* diagnostic first and no let statement first.                           *)
(***************************************************************************)
TokenAt(ts, i) == IF i <= Len(ts) THEN ts[i] ELSE EOF

HasIdent(ts, i) == Kind(TokenAt(ts, i + 1)) = "IDENT"

WellFormedHead(ts, i) == HasIdent(ts, i) /\ TokenAt(ts, i + 2) = T_ASSIGN

LetError(ts, i) ==
    IF HasIdent(ts, i)
    THEN ExpectedError("Token::ASSIGN", TokenAt(ts, i + 2))
    ELSE ExpectedError("Token::IDENT", TokenAt(ts, i + 1))

\* where the parser stops: on 'let', or on the identifier
LetStop(ts, i) == IF HasIdent(ts, i) THEN i + 1 ELSE i

Dropped(r, ts, i) ==
    /\ r.val = None
    /\ r.p.errors = <<LetError(ts, i)>>
    /\ r.p.cur_token = TokenAt(ts, LetStop(ts, i))
    /\ r.p.peek_token = TokenAt(ts, LetStop(ts, i) + 1)

LetStatements ==
    {k \in 1..Len(AllStatements) : AllStatements[k][1] = "LetStatement"}

C8_MalformedLet ==
    pc = "done"
        => /\ \A i \in 1..Len(Input) :
                  (Input[i] = T_LET /\ ~WellFormedHead(Input, i))
                      => /\ Dropped(parse_let_statement(ParserAt(Input, i)), Input, i)
                         /\ Dropped(parse_statement(ParserAt(Input, i)), Input, i)
           /\ Cardinality(LetStatements)
                  <= Cardinality({i \in 1..Len(Input) :
                                      Input[i] = T_LET /\ WellFormedHead(Input, i)})
           /\ (Input # <<>> /\ Input[1] = T_LET /\ ~WellFormedHead(Input, 1))
                  => /\ parser.errors # <<>>
                     /\ parser.errors[1] = LetError(Input, 1)
                     /\ program.statements # <<>>
                            => program.statements[1][1] # "LetStatement"

C8_Witness ==
    /\ pc = "done"
    /\ Input = <<T_LET, T_ASSIGN, T_5, T_SEMICOLON>>
    /\ parser.errors[1] = ExpectedError("Token::IDENT", T_ASSIGN)
    /\ LetStatements = {}
    /\ Len(program.statements) = 2

(***************************************************************************)
(* C9: every expectation mismatch is recorded: when the peek token is not *)
(* of the kind the parser requires (the identifier and the '=' of a let,  *)
(* the '(' of an if or a function literal, the ')' closing a group), the  *)
(* construct is abandoned and a diagnostic with the expected kind and the *)
(* peek token is appended.                                                *)
(***************************************************************************)
Recorded(r, p, kind) ==
    /\ r.val = None
    /\ r.p.errors = Append(p.errors, ExpectedError(kind, p.peek_token))

GroupInner(ts, i) == parse_expression(next_token(ParserAt(ts, i)), LOWEST)

\* ts[i] is where an expression begins: parse_expression dispatches on it
StartsExpression(ts, i) ==
    i = 1 \/ Kind(ts[i - 1]) \notin {"IDENT", "INT", "RPAREN", "RBRACE", "RBRACKET"}

C9_MismatchRecorded ==
    pc = "done"
        => \A i \in 1..Len(Input) :
               /\ (Input[i] = T_LET /\ ~HasIdent(Input, i))
                      => Recorded(parse_let_statement(ParserAt(Input, i)),
                                  ParserAt(Input, i), "Token::IDENT")
               /\ (Input[i] = T_LET /\ HasIdent(Input, i)
                      /\ TokenAt(Input, i + 2) # T_ASSIGN)
                      => Recorded(parse_let_statement(ParserAt(Input, i)),
                                  ParserAt(Input, i + 1), "Token::ASSIGN")
               /\ (Input[i] = T_IF /\ StartsExpression(Input, i)
                      /\ TokenAt(Input, i + 1) # T_LPAREN)
                      => Recorded(parse_if_expression(ParserAt(Input, i)),
                                  ParserAt(Input, i), "Token::LPAREN")
               /\ (Input[i] = T_FUNCTION /\ StartsExpression(Input, i)
                      /\ TokenAt(Input, i + 1) # T_LPAREN)
                      => Recorded(parse_fn_expression(ParserAt(Input, i)),
                                  ParserAt(Input, i), "Token::LPAREN")
               /\ (Input[i] = T_LPAREN /\ StartsExpression(Input, i)
                      /\ IsSome(GroupInner(Input, i).val)
                      /\ ~PeekIs(GroupInner(Input, i).p, "RPAREN"))
                      => Recorded(parse_grouped_expression(ParserAt(Input, i)),
                                  GroupInner(Input, i).p, "Token::RPAREN")

(***************************************************************************)
(* C10, as claimed: a statement with an empty expression or value slot,   *)
(* at the top level or in a block, is always an ExpressionStatement.      *)
(***************************************************************************)
C10_OnlyExpressionStatement ==
    pc = "done"
        => \A k \in 1..Len(AllStatements) :
               EmptySlot(AllStatements[k])
                   => AllStatements[k][1] = "ExpressionStatement"

(***************************************************************************)
(* C10, amended: a let statement with a well-formed head and a return     *)
(* statement are always emitted, with whatever parse_expression returned  *)
(* as their value, the empty slot of a failed value included; so a        *)
(* statement with an empty slot is an ExpressionStatement, a LetStatement *)
(* or a ReturnStatement.                                                  *)
(***************************************************************************)
LetValue(ts, i) == parse_expression(ParserAt(ts, i + 3), LOWEST)

ReturnValue(ts, i) == parse_expression(ParserAt(ts, i + 1), LOWEST)

C10_EmptySlots ==
    pc = "done"
        => /\ \A i \in 1..Len(Input) :
                  /\ (Input[i] = T_LET /\ WellFormedHead(Input, i))
                         => parse_statement(ParserAt(Input, i)).val
                                = Some(LetStatement(T_LET, Identifier(Input[i + 1]),
                                                    LetValue(Input, i).val))
                  /\ Input[i] = T_RETURN
                         => parse_statement(ParserAt(Input, i)).val
                                = Some(ReturnStatement(T_RETURN,
                                                       ReturnValue(Input, i).val))
           /\ (Input # <<>> /\ Input[1] = T_RETURN)
                  => /\ program.statements # <<>>
                     /\ program.statements[1]
                            = ReturnStatement(T_RETURN, ReturnValue(Input, 1).val)
           /\ \A k \in 1..Len(AllStatements) :
                  EmptySlot(AllStatements[k])
                      => AllStatements[k][1] \in {"ExpressionStatement",
                                                  "LetStatement", "ReturnStatement"}

C10_Witness ==
    /\ pc = "done"
    /\ Input = <<T_RETURN, T_SEMICOLON>>
    /\ program.statements = <<ReturnStatement(T_RETURN, None)>>
    /\ parser.errors = <<NoPrefixError(T_SEMICOLON)>>

(***************************************************************************)
(* C11: every parameter of a FunctionLiteral the parser produces is a     *)
(* bare identifier: its token is an identifier token, and the parameters  *)
(* are the tokens of the parameter list in source order.                  *)
(***************************************************************************)
FnParse(ts, i) == parse_fn_expression(ParserAt(ts, i))

BareIdentifiers(parameters, ts, i) ==
    \A k \in 1..Len(parameters) :
        /\ Kind(parameters[k][2]) = "IDENT"
        /\ parameters[k] = Identifier(TokenAt(ts, i + 2 * k))

C11_ParametersAreIdentifiers ==
    pc = "done"
        => /\ \A i \in 1..Len(Input) :
                  (Input[i] = T_FUNCTION /\ StartsExpression(Input, i)
                       /\ IsSome(FnParse(Input, i).val))
                      => BareIdentifiers(Unwrap(FnParse(Input, i).val)[3], Input, i)
           /\ \A k \in 1..Len(AllStatements) :
                  (~EmptySlot(AllStatements[k])
                       /\ Unwrap(AllStatements[k][Len(AllStatements[k])])[1]
                              = "FunctionLiteral")
                      => \A j \in 1..Len(Unwrap(AllStatements[k][Len(AllStatements[k])])[3]) :
                             Kind(Unwrap(AllStatements[k][Len(AllStatements[k])])[3][j][2])
                                 = "IDENT"

(***************************************************************************)
(* Array and hash literals: up to MaxElements elements or pairs between   *)
(* the delimiters, with or without a ',' before the closing delimiter.    *)
(***************************************************************************)
MaxElements == 3

Elements == {<<T_a>>, <<T_5>>, <<T_a, T_PLUS, T_b>>, <<T_MINUS, T_b>>}

Pairs ==
    {<<key, T_COLON>> \o value :
        key \in {T_a, T_b, T_5}, value \in {<<T_a>>, <<T_5>>, <<T_a, T_PLUS, T_b>>}}

LiteralOf(open, items, trailing, close) ==
    <<open>> \o JoinArguments(items)
             \o (IF trailing THEN <<T_COMMA>> ELSE <<>>) \o <<close>>

ArrayInputs(trailing) ==
    {LiteralOf(T_LBRACKET, items, trailing, T_RBRACKET) :
        items \in SeqsUpTo(Elements, MaxElements)}

HashInputs(trailing) ==
    {LiteralOf(T_LBRACE, items, trailing, T_RBRACE) :
        items \in SeqsUpTo(Pairs, MaxElements)}

LiteralInputs ==
    ArrayInputs(FALSE) \cup ArrayInputs(TRUE)
        \cup HashInputs(FALSE) \cup HashInputs(TRUE)

LiteralNext == NextOn(LiteralInputs)

LiteralSpec == Init /\ [][LiteralNext]_vars

(***************************************************************************)
(* C12: array and hash literals are comma-separated lists between their   *)
(* delimiters and a trailing comma is not permitted: with a ',' directly  *)
(* before the closing ']' or '}' the literal's parse fails and the        *)
(* Program holds no ArrayLiteral or HashLiteral; without it the literal   *)
(* is produced, and '{}' is a HashLiteral with no pairs.                  *)
(***************************************************************************)
NoLiteral ==
    /\ program.statements # <<>>
    /\ program.statements[1] = ExpressionStatement(Input[1], None)

C12_NoTrailingComma ==
    pc = "done"
        => /\ Input \in ArrayInputs(TRUE)
                  => /\ parse_array_literal(ParserAt(Input, 1)).val = None
                     /\ NoLiteral
           /\ Input \in HashInputs(TRUE)
                  => /\ parse_hash_literal(ParserAt(Input, 1)).val = None
                     /\ NoLiteral
           /\ Input \in ArrayInputs(FALSE)
                  => /\ parser.errors = <<>>
                     /\ Len(program.statements) = 1
                     /\ TheExpression[1] = "ArrayLiteral"
           /\ Input \in HashInputs(FALSE)
                  => /\ parser.errors = <<>>
                     /\ Len(program.statements) = 1
                     /\ TheExpression[1] = "HashLiteral"
           /\ Input = <<T_LBRACE, T_RBRACE>>
                  => Parsed(HashLiteral(T_LBRACE, <<>>))

(***************************************************************************)
(* C13: a hash literal keeps one entry per distinct key, with the value   *)
(* of the last pair written with that key: it has as many pairs as the    *)
(* source has distinct keys, and for every pair of the source the entry   *)
(* of its key holds the value of the last pair of the source with it.     *)
(***************************************************************************)
\* where the keys of the pairs of a hash literal stand in its source
PairStarts(ts) ==
    {i \in 2..Len(ts) : ts[i - 1] \in {T_LBRACE, T_COMMA} /\ ts[i] # T_RBRACE}

PairEnd(ts, i) ==
    CHOOSE j \in i..Len(ts) :
        /\ ts[j + 1] \in {T_COMMA, T_RBRACE}
        /\ \A k \in i..j : ts[k] \notin {T_COMMA, T_RBRACE}

SourceKey(ts, i) == Unwrap(Standalone(<<ts[i]>>).val)

SourceValue(ts, i) == Unwrap(Standalone(SubSeq(ts, i + 2, PairEnd(ts, i))).val)

LastWith(ts, i) ==
    CHOOSE j \in PairStarts(ts) :
        /\ ts[j] = ts[i]
        /\ \A k \in PairStarts(ts) : ts[k] = ts[i] => k <= j

C13_LastWriteWins ==
    (pc = "done" /\ Input \in HashInputs(FALSE))
        => /\ parser.errors = <<>>
           /\ TheExpression[1] = "HashLiteral"
           /\ Len(TheExpression[3])
                  = Cardinality({Input[i] : i \in PairStarts(Input)})
           /\ \A i \in PairStarts(Input) :
                  \E k \in 1..Len(TheExpression[3]) :
                      TheExpression[3][k]
                          = <<SourceKey(Input, i),
                              SourceValue(Input, LastWith(Input, i))>>

C13_Witness ==
    /\ pc = "done"
    /\ Input = <<T_LBRACE, T_a, T_COLON, T_5, T_COMMA, T_b, T_COLON, T_a, T_COMMA,
                 T_a, T_COLON, T_a, T_PLUS, T_b, T_RBRACE>>
    /\ Len(TheExpression[3]) = 2
    /\ \E k \in 1..2 :
           TheExpression[3][k]
               = <<Identifier(T_a),
                   InfixExpression(T_PLUS, Identifier(T_a), Identifier(T_b))>>

(***************************************************************************)
(* C14: the diagnostics are append-only: across every step of             *)
(* parse_program, the failed and abandoned sub-parses of the statement    *)
(* included, the earlier sequence of messages is a prefix of the later    *)
(* one.                                                                   *)
(***************************************************************************)
IsPrefix(s, t) == Len(s) <= Len(t) /\ SubSeq(t, 1, Len(s)) = s

C14_AppendOnly == [][IsPrefix(parser.errors, parser'.errors)]_vars

C14_Witness ==
    /\ pc = "loop"
    /\ Len(parser.errors) >= 2
    /\ parser.errors[1] # parser.errors[2]
    /\ ~CurIs(parser, "EOF")
    /\ Len(parse_program_iteration(parser, program.statements).p.errors)
           > Len(parser.errors)

(***************************************************************************)
(* C15: the token cursor: after construction and after any number of      *)
(* advances, current and peek are the tokens i and i+1 of the source,     *)
(* end-of-input repeated past the end, and the lexer has delivered every  *)
(* token up to peek once; each advance raises i by exactly one.  In every *)
(* state of a parse the cursor is at such an i, and i never decreases.    *)
(***************************************************************************)
CursorIs(p, ts, i) ==
    /\ p.lexer.input = ts
    /\ p.cur_token = TokenAt(ts, i)
    /\ p.peek_token = TokenAt(ts, i + 1)
    /\ p.lexer.position = (IF i + 2 <= Len(ts) THEN i + 2 ELSE Len(ts) + 1)

CursorIndex(p) ==
    CHOOSE i \in 1..(Len(p.lexer.input) + 1) : CursorIs(p, p.lexer.input, i)

OnSource ==
    pc # "new"
        => /\ \A n \in 0..(Len(Input) + 2) :
                  CursorIs(Advanced(Parser_new(Lexer_new(Input)), n), Input, n + 1)
           /\ \E i \in 1..(Len(Input) + 1) : CursorIs(parser, Input, i)

C15_TokenCursor ==
    /\ []OnSource
    /\ [][pc = "loop" => CursorIndex(parser') >= CursorIndex(parser)]_vars

C15_Witness ==
    /\ pc = "loop"
    /\ Len(Input) = 5
    /\ CursorIs(parser, Input, 4)
    /\ parser.peek_token # EOF

(***************************************************************************)
(* Integer literals: digit texts around 2^63 - 1 = 9223372036854775807,   *)
(* each with whether it is at most 2^63 - 1 and the decimal digits of its *)
(* value, in several contexts.                                            *)
(***************************************************************************)
IntegerTexts ==
    {
     [text |-> <<"0">>,
      fits |-> TRUE,
      value |-> <<0>>],
     [text |-> <<"5">>,
      fits |-> TRUE,
      value |-> <<5>>],
     [text |-> <<"0", "0", "7">>,
      fits |-> TRUE,
      value |-> <<7>>],
     [text |-> <<"9", "2", "2", "3", "3", "7", "2", "0", "3", "6", "8", "5", "4", "7", "7", "5", "8", "0", "6">>,
      fits |-> TRUE,
      value |-> <<9, 2, 2, 3, 3, 7, 2, 0, 3, 6, 8, 5, 4, 7, 7, 5, 8, 0, 6>>],
     [text |-> <<"9", "2", "2", "3", "3", "7", "2", "0", "3", "6", "8", "5", "4", "7", "7", "5", "8", "0", "7">>,
      fits |-> TRUE,
      value |-> <<9, 2, 2, 3, 3, 7, 2, 0, 3, 6, 8, 5, 4, 7, 7, 5, 8, 0, 7>>],
     [text |-> <<"9", "2", "2", "3", "3", "7", "2", "0", "3", "6", "8", "5", "4", "7", "7", "5", "8", "0", "8">>,
      fits |-> FALSE,
      value |-> <<>>],
     [text |-> <<"9", "2", "2", "3", "3", "7", "2", "0", "3", "6", "8", "5", "4", "7", "7", "5", "8", "1", "7">>,
      fits |-> FALSE,
      value |-> <<>>],
     [text |-> <<"1", "0", "0", "0", "0", "0", "0", "0", "0", "0", "0", "0", "0", "0", "0", "0", "0", "0", "0">>,
      fits |-> TRUE,
      value |-> <<1, 0, 0, 0, 0, 0, 0, 0, 0, 0, 0, 0, 0, 0, 0, 0, 0, 0, 0>>],
     [text |-> <<"9", "9", "9", "9", "9", "9", "9", "9", "9", "9", "9", "9", "9", "9", "9", "9", "9", "9", "9">>,
      fits |-> FALSE,
      value |-> <<>>],
     [text |-> <<"8", "2", "2", "3", "3", "7", "2", "0", "3", "6", "8", "5", "4", "7", "7", "5", "8", "0", "8">>,
      fits |-> TRUE,
      value |-> <<8, 2, 2, 3, 3, 7, 2, 0, 3, 6, 8, 5, 4, 7, 7, 5, 8, 0, 8>>],
     [text |-> <<"1", "0", "0", "0", "0", "0", "0", "0", "0", "0", "0", "0", "0", "0", "0", "0", "0", "0", "0", "0">>,
      fits |-> FALSE,
      value |-> <<>>],
     [text |-> <<"1", "8", "4", "4", "6", "7", "4", "4", "0", "7", "3", "7", "0", "9", "5", "5", "1", "6", "1", "6">>,
      fits |-> FALSE,
      value |-> <<>>],
     [text |-> <<"1", "8", "4", "4", "6", "7", "4", "4", "0", "7", "3", "7", "0", "9", "5", "5", "1", "6", "2", "1">>,
      fits |-> FALSE,
      value |-> <<>>],
     [text |-> <<"0", "9", "2", "2", "3", "3", "7", "2", "0", "3", "6", "8", "5", "4", "7", "7", "5", "8", "0", "7">>,
      fits |-> TRUE,
      value |-> <<9, 2, 2, 3, 3, 7, 2, 0, 3, 6, 8, 5, 4, 7, 7, 5, 8, 0, 7>>],
     [text |-> <<"0", "0", "0", "9", "2", "2", "3", "3", "7", "2", "0", "3", "6", "8", "5", "4", "7", "7", "5", "8", "0", "8">>,
      fits |-> FALSE,
      value |-> <<>>],
     [text |-> <<"0", "0", "0", "0", "0", "0", "0", "0", "0", "0", "0", "0", "0", "0", "0", "0", "0", "0", "0", "0", "5">>,
      fits |-> TRUE,
      value |-> <<5>>]
    }

Contexts(x) ==
    {<<x>>,
     <<T_MINUS, x>>,
     <<T_a, T_PLUS, x>>,
     <<x, T_ASTERISK, T_a>>,
     <<T_LET, T_a, T_ASSIGN, x, T_SEMICOLON>>,
     <<T_RETURN, x, T_SEMICOLON>>,
     <<T_LBRACKET, T_a, T_COMMA, x, T_RBRACKET>>,
     <<T_LPAREN, x, T_RPAREN>>,
     <<T_a, T_LPAREN, x, T_RPAREN>>}

IntegerInputs == UNION {Contexts(Token_INT(t.text)) : t \in IntegerTexts}

IntegerNext == NextOn(IntegerInputs)

IntegerSpec == Init /\ [][IntegerNext]_vars

(***************************************************************************)
(* C16: an integer token yields an IntegerLiteral exactly when its text   *)
(* is at most 2^63 - 1, with that value; otherwise parse_integer_literal  *)
(* records one diagnostic with the token and returns nothing, the         *)
(* enclosing expression fails (the statement's slot is empty), and no     *)
(* IntegerLiteral, wrapped or truncated, is in the Program.               *)
(***************************************************************************)
IntegerAt(ts) == CHOOSE i \in 1..Len(ts) : Kind(ts[i]) = "INT"

TextOf(ts) == CHOOSE t \in IntegerTexts : t.text = Literal(ts[IntegerAt(ts)])

IntegerParse(ts) ==
    parse_integer_literal(ParserAt(ts, IntegerAt(ts)), Literal(ts[IntegerAt(ts)]))

\* the integer literals of an expression of prefix and infix operators,
\* arrays and calls
RECURSIVE IntegersOf(_), IntegersOfAll(_)
IntegersOf(e) ==
    CASE e[1] = "IntegerLiteral" -> <<e>>
      [] e[1] = "PrefixExpression" -> IntegersOf(e[3])
      [] e[1] = "InfixExpression" -> IntegersOf(e[3]) \o IntegersOf(e[4])
      [] e[1] = "ArrayLiteral" -> IntegersOfAll(e[3])
      [] e[1] = "CallExpression" -> IntegersOf(e[3]) \o IntegersOfAll(e[4])
      [] OTHER -> <<>>

IntegersOfAll(expressions) ==
    IF expressions = <<>> THEN <<>>
    ELSE IntegersOf(Head(expressions)) \o IntegersOfAll(Tail(expressions))

RECURSIVE IntegersOfStatements(_)
IntegersOfStatements(statements) ==
    IF statements = <<>> THEN <<>>
    ELSE (IF EmptySlot(Head(statements)) THEN <<>>
          ELSE IntegersOf(Unwrap(Head(statements)[Len(Head(statements))])))
         \o IntegersOfStatements(Tail(statements))

Carrying(token) ==
    {k \in 1..Len(parser.errors) :
        parser.errors[k][Len(parser.errors[k])] = token}

C16_IntegerLiteral ==
    (pc = "done" /\ Input \in IntegerInputs)
        => IF TextOf(Input).fits
           THEN /\ IntegerParse(Input).val
                       = Some(IntegerLiteral(Input[IntegerAt(Input)],
                                             TextOf(Input).value))
                /\ IntegerParse(Input).p.errors = <<>>
                /\ parser.errors = <<>>
                /\ IntegersOfStatements(program.statements)
                       = <<IntegerLiteral(Input[IntegerAt(Input)],
                                          TextOf(Input).value)>>
           ELSE /\ IntegerParse(Input).val = None
                /\ IntegerParse(Input).p.errors
                       = <<IntegerError(Input[IntegerAt(Input)])>>
                /\ parser.errors[1] = IntegerError(Input[IntegerAt(Input)])
                /\ Carrying(Input[IntegerAt(Input)]) = {1}
                /\ EmptySlot(program.statements[1])
                /\ IntegersOfStatements(program.statements) = <<>>

C16_Witness ==
    /\ pc = "done"
    /\ Input = <<T_a, T_PLUS,
                 Token_INT(<<"9", "2", "2", "3", "3", "7", "2", "0", "3", "6",
                             "8", "5", "4", "7", "7", "5", "8", "0", "8">>)>>
    /\ Len(parser.errors) = 1
    /\ program.statements = <<ExpressionStatement(T_a, None)>>

(***************************************************************************)
(* If expressions and function literals with blocks of up to              *)
(* MaxBlockStatements statements, nested blocks among them; an if         *)
(* expression is followed by nothing, by an else block, by an else        *)
(* without a block, or by another statement; a function literal is also   *)
(* cut short at every length.                                             *)
(***************************************************************************)
MaxBlockStatements == 2

Conditions ==
    {<<T_a>>,
     <<T_a, T_LT, T_b>>,
     <<T_BANG, T_a>>,
     <<T_LPAREN, T_a, T_PLUS, T_b, T_RPAREN, T_ASTERISK, T_5>>,
     <<T_a, T_LPAREN, T_b, T_RPAREN>>}

BlockForms ==
    {<<T_a>>,
     <<T_a, T_PLUS, T_5, T_SEMICOLON>>,
     <<T_LET, T_a, T_ASSIGN, T_5, T_SEMICOLON>>,
     <<T_RETURN, T_b, T_SEMICOLON>>,
     <<T_IF, T_LPAREN, T_a, T_RPAREN, T_LBRACE, T_b, T_RBRACE>>,
     <<T_IF, T_LPAREN, T_a, T_RPAREN, T_LBRACE, T_b, T_RBRACE,
       T_ELSE, T_LBRACE, T_5, T_SEMICOLON, T_RBRACE>>,
     <<T_FUNCTION, T_LPAREN, T_RPAREN, T_LBRACE, T_RETURN, T_a, T_RBRACE>>}

Block(body) == <<T_LBRACE>> \o body \o <<T_RBRACE>>

Blocks(n) == {Block(Concat(forms)) : forms \in SeqsUpTo(BlockForms, n)}

IfTails ==
    {<<>>, <<T_b>>, <<T_SEMICOLON, T_b>>,
     <<T_ELSE>>, <<T_ELSE, T_a>>, <<T_ELSE, T_LPAREN, T_a, T_RPAREN>>,
     <<T_ELSE, T_IF, T_LPAREN, T_a, T_RPAREN, T_LBRACE, T_b, T_RBRACE>>}
    \cup {<<T_ELSE>> \o block : block \in Blocks(1)}

IfInputs ==
    {<<T_IF, T_LPAREN>> \o condition \o <<T_RPAREN>> \o block \o tail :
        condition \in Conditions, block \in Blocks(MaxBlockStatements),
        tail \in IfTails}

FnInputs ==
    {<<T_FUNCTION, T_LPAREN, T_a, T_RPAREN>> \o block :
        block \in Blocks(MaxBlockStatements)}

CutShort(inputs) == UNION {{SubSeq(t, 1, k) : k \in 0..Len(t)} : t \in inputs}

BlockInputs == IfInputs \cup FnInputs \cup CutShort(FnInputs)

BlockNext == NextOn(BlockInputs)

BlockSpec == Init /\ [][BlockNext]_vars

\* the bracket closing the one at ts[i]
MatchClose(ts, i) ==
    CHOOSE k \in (i + 1)..Len(ts) :
        /\ NestingAt(ts, k + 1) = NestingAt(ts, i)
        /\ \A j \in (i + 1)..(k - 1) : NestingAt(ts, j + 1) > NestingAt(ts, i)

Between(ts, i) == SubSeq(ts, i + 1, MatchClose(ts, i) - 1)

\* the statements of ts parsed as a program of its own
RECURSIVE ProgramRun(_)
ProgramRun(r) ==
    IF CurIs(r.p, "EOF") THEN r.statements
    ELSE ProgramRun(parse_program_iteration(r.p, r.statements))

ProgramOf(ts) ==
    ProgramRun([p |-> Parser_new(Lexer_new(ts)), statements |-> <<>>])

(***************************************************************************)
(* C17: a successfully parsed 'if ( cond ) { ... }' has as condition the  *)
(* parse at LOWEST of the tokens between the parentheses, as consequence  *)
(* the statements of the block in source order, and an alternative (the   *)
(* statements of the else block) exactly when 'else' and '{' follow the   *)
(* '}' of the consequence; an 'else' not followed by '{' makes the whole  *)
(* if expression fail.                                                    *)
(***************************************************************************)
IfParse(ts) == parse_if_expression(ParserAt(ts, 1))

ConsequenceOpen(ts) == MatchClose(ts, 2) + 1

ElseAt(ts) == MatchClose(ts, ConsequenceOpen(ts)) + 1

HasElse(ts) == TokenAt(ts, ElseAt(ts)) = T_ELSE

HasElseBlock(ts) == HasElse(ts) /\ TokenAt(ts, ElseAt(ts) + 1) = T_LBRACE

BlockOf(ts, i) == BlockStatement(ts[i], ProgramOf(Between(ts, i)))

IfOf(ts) ==
    IfExpression(ts[1],
                 Unwrap(Standalone(Between(ts, 2)).val),
                 BlockOf(ts, ConsequenceOpen(ts)),
                 IF HasElseBlock(ts) THEN Some(BlockOf(ts, ElseAt(ts) + 1)) ELSE None)

C17_IfExpression ==
    (pc = "done" /\ Input \in IfInputs)
        => /\ program.statements[1] = ExpressionStatement(T_IF, IfParse(Input).val)
           /\ IsSome(IfParse(Input).val) <=> (HasElse(Input) => HasElseBlock(Input))
           /\ IsSome(IfParse(Input).val) => IfParse(Input).val = Some(IfOf(Input))

C17_Witness ==
    /\ pc = "done"
    /\ Input = <<T_IF, T_LPAREN, T_a, T_LT, T_b, T_RPAREN,
                 T_LBRACE, T_RETURN, T_b, T_SEMICOLON, T_a, T_RBRACE,
                 T_ELSE, T_LBRACE, T_a, T_PLUS, T_5, T_SEMICOLON, T_RBRACE>>
    /\ parser.errors = <<>>
    /\ program.statements
           = <<ExpressionStatement(T_IF, Some(
                 IfExpression(T_IF,
                     InfixExpression(T_LT, Identifier(T_a), Identifier(T_b)),
                     BlockStatement(T_LBRACE,
                         <<ReturnStatement(T_RETURN, Some(Identifier(T_b))),
                           ExpressionStatement(T_a, Some(Identifier(T_a)))>>),
                     Some(BlockStatement(T_LBRACE,
                         <<ExpressionStatement(T_a, Some(
                               InfixExpression(T_PLUS, Identifier(T_a),
                                               IntegerLiteral(T_5, <<5>>))))>>)))))>>

(***************************************************************************)
(* C18: parse_block_statement always returns a block and stops on the '}' *)
(* closing this block, or on end-of-input: a closed block holds the       *)
(* statements between its braces, the '}' of the blocks nested in it not  *)
(* ending it; a block cut short by end-of-input holds the statements      *)
(* parsed so far, and the diagnostics are those of these statements, none *)
(* for the missing '}'.                                                   *)
(***************************************************************************)
BlockParse(ts, i) == parse_block_statement(ParserAt(ts, i))

\* ts[i] opens the block of an if, an else or a function literal
OpensBlock(ts, i) == i > 1 /\ ts[i] = T_LBRACE /\ ts[i - 1] \in {T_RPAREN, T_ELSE}

Closed(ts, i) ==
    \E k \in (i + 1)..Len(ts) :
        /\ NestingAt(ts, k + 1) = NestingAt(ts, i)
        /\ \A j \in (i + 1)..(k - 1) : NestingAt(ts, j + 1) > NestingAt(ts, i)

RECURSIVE ProgramEnd(_)
ProgramEnd(r) ==
    IF CurIs(r.p, "EOF") THEN r.p
    ELSE ProgramEnd(parse_program_iteration(r.p, r.statements))

ErrorsOf(ts) ==
    ProgramEnd([p |-> Parser_new(Lexer_new(ts)), statements |-> <<>>]).errors

Rest(ts, i) == SubSeq(ts, i + 1, Len(ts))

C18_BlockStatement ==
    (pc = "done" /\ Input \in BlockInputs)
        => \A i \in 1..Len(Input) :
               OpensBlock(Input, i)
                   => /\ BlockParse(Input, i).val[1] = "BlockStatement"
                      /\ Kind(BlockParse(Input, i).p.cur_token) \in {"RBRACE", "EOF"}
                      /\ ~BlockParse(Input, i).p.diverged
                      /\ Closed(Input, i)
                             => /\ CursorIs(BlockParse(Input, i).p, Input,
                                            MatchClose(Input, i))
                                /\ BlockParse(Input, i).val = BlockOf(Input, i)
                                /\ BlockParse(Input, i).p.errors
                                       = ErrorsOf(Between(Input, i))
                      /\ ~Closed(Input, i)
                             => /\ CursorIs(BlockParse(Input, i).p, Input,
                                            Len(Input) + 1)
                                /\ BlockParse(Input, i).val
                                       = BlockStatement(T_LBRACE,
                                                        ProgramOf(Rest(Input, i)))
                                /\ BlockParse(Input, i).p.errors
                                       = ErrorsOf(Rest(Input, i))

C18_Witness ==
    /\ pc = "done"
    /\ Input = <<T_FUNCTION, T_LPAREN, T_a, T_RPAREN, T_LBRACE,
                 T_IF, T_LPAREN, T_a, T_RPAREN, T_LBRACE, T_b, T_RBRACE,
                 T_RETURN, T_b, T_SEMICOLON>>
    /\ parser.errors = <<>>
    /\ BlockParse(Input, 5).p.cur_token = EOF
    /\ BlockParse(Input, 5).val
           = BlockStatement(T_LBRACE,
                 <<ExpressionStatement(T_IF, Some(
                       IfExpression(T_IF, Identifier(T_a),
                           BlockStatement(T_LBRACE,
                               <<ExpressionStatement(T_b, Some(Identifier(T_b)))>>),
                           None))),
                   ReturnStatement(T_RETURN, Some(Identifier(T_b)))>>)
    /\ BlockParse(Input, 10).p.cur_token = T_RBRACE

====
